---- MODULE Spec2Model ----
(***************************************************************************)
(* A model of agateods/table_ods.py: Table.from_ods, the sheet selection,  *)
(* the row/cell walk with its skip_lines / header / row_limit policy, the  *)
(* per-cell value resolution and the assembly of the table.                *)
(*                                                                         *)
(* Conventions.  A Python string that the code takes apart (a paragraph    *)
(* text, an attribute value) is a sequence of one-character strings; the   *)
(* Python value None, where such a string may stand, is NoneVal.  A        *)
(* value-type is a TLA+ string and an absent one is NoType.  An optional   *)
(* integer (row_limit) is <<>> for None and <<n>> for the integer n.       *)
(* Attribute names are written with "_" for "-" and without namespace.     *)
(*                                                                         *)
(* The initial states are those of from_ods once content.xml is read and   *)
(* parsed (lines 102-114): the document is a sequence of sheets, a sheet a *)
(* name and a sequence of rows, a row a sequence of cells.  The call to    *)
(* agate.Table is the last step modelled: table holds its arguments.       *)
(***************************************************************************)
EXTENDS Integers, Sequences, FiniteSets, TLC

\* ------------------------------------------------------------------ bounds
MaxRows == 3        \* rows of the walked sheet
MaxSkip == 1        \* largest skip_lines argument
MaxLimit == 2       \* largest row_limit argument
MaxSheets == 2      \* sheets of a document, where selection is exercised

\* ------------------------------------------------------------- values
NoneVal == <<"None">>
NoType == "<absent>"
Digits == {"0", "1", "2", "3", "4", "5", "6", "7", "8", "9"}

\* dict.get / Element.attrib.get: the value under key k, or None.
AttribGet(attrib, k) == IF k \in DOMAIN attrib THEN attrib[k] ELSE NoneVal

\* data_cell.attrib.get(value_type_attr): the declared value-type, or None.
ValueTypeOf(cell) ==
    IF "value_type" \in DOMAIN cell.attrib THEN cell.attrib.value_type ELSE NoType

\* padding_attr in data_cell.attrib.keys()
IsPadding(cell) == "number_columns_repeated" \in DOMAIN cell.attrib

\* ODS_TYPE_TO_AGATE: declared value-type -> agate column type.
ODS_TYPE_TO_AGATE ==
    [string |-> "Text", float |-> "Number", currency |-> "Number",
     date |-> "DateTime", time |-> "DateTime", boolean |-> "Boolean",
     percentage |-> "Number"]

\* resolve_value_attr: declared value-type -> the attribute holding the value.
resolve_value_attr ==
    [float |-> "value", percentage |-> "value", currency |-> "currency",
     date |-> "date_value", time |-> "time_value", boolean |-> "boolean_value"]

\* re.sub(r"[^\d.]+", "", value): keep the digits and the dots.
resolve_string_to_number(value) ==
    SelectSeq(value, LAMBDA ch : ch \in Digits \cup {"."})

\* data_cell.findtext(p_tag) if it is not None else ''
ParagraphText(cell) == IF cell.p = NoneVal THEN <<>> ELSE cell.p

\* resolve_data_value: the value of a cell, or the KeyError of the lookup
\* resolve_value_attr[cell_data_type].
resolve_data_value(data_cell) ==
    LET cell_data_type == ValueTypeOf(data_cell) IN
    IF cell_data_type = "string"
    THEN [err |-> "", value |-> ParagraphText(data_cell)]
    ELSE IF cell_data_type = "currency"
    THEN [err |-> "", value |-> resolve_string_to_number(ParagraphText(data_cell))]
    ELSE IF cell_data_type \in DOMAIN resolve_value_attr
    THEN [err |-> "",
          value |-> AttribGet(data_cell.attrib, resolve_value_attr[cell_data_type])]
    ELSE [err |-> "KeyError", value |-> NoneVal]

\* --------------------------------------------------------- sample inputs
PadCell == [attrib |-> [number_columns_repeated |-> <<"2">>], p |-> NoneVal]
StrCell == [attrib |-> [value_type |-> "string"], p |-> <<"a">>]
FloatCell ==
    [attrib |-> [value_type |-> "float", value |-> <<"1">>], p |-> <<"1", ".", "0">>]
CurCell ==
    [attrib |-> [value_type |-> "currency", value |-> <<"1">>, currency |-> <<"U">>],
     p |-> <<"$", "1">>]
BareCell == [attrib |-> [style_name |-> <<"c">>], p |-> <<"a">>]

SampleRows ==
    { <<PadCell>>, <<StrCell>>, <<FloatCell, PadCell>>, <<BareCell>>,
      <<StrCell, FloatCell>>, <<BareCell, StrCell>>, <<CurCell>> }

\* All sequences over S of length at most n.
RECURSIVE SeqsUpTo(_, _)
SeqsUpTo(S, n) ==
    IF n = 0 THEN {<<>>}
    ELSE LET shorter == SeqsUpTo(S, n - 1) IN
         shorter \cup {Append(s, x) : s \in {t \in shorter : Len(t) = n - 1}, x \in S}

\* ------------------------------------------------------------- the walk
EmptyMap == [c \in {} |-> NoType]

\* Lines 141-155, the loop over the cells of one row from cell i on: the
\* values of the non-padding cells, the column types observed, and the error
\* raised on the way ("" when none).  no_types is (header and first_row).
RECURSIVE CellLoop(_, _, _, _, _, _)
CellLoop(cells, i, row, types, column_number, no_types) ==
    IF i > Len(cells) THEN [err |-> "", row |-> row, types |-> types]
    ELSE LET data_cell == cells[i]
             cell_data_type == ValueTypeOf(data_cell)
         IN
         IF IsPadding(data_cell)
         THEN CellLoop(cells, i + 1, row, types, column_number, no_types)
         ELSE LET r == resolve_data_value(data_cell) IN
              IF r.err # "" THEN [err |-> r.err, row |-> row, types |-> types]
              ELSE IF no_types
              THEN CellLoop(cells, i + 1, Append(row, r.value), types,
                            column_number, no_types)
              ELSE IF column_number \notin DOMAIN types
              THEN CellLoop(cells, i + 1, Append(row, r.value),
                            types @@ (column_number :> cell_data_type),
                            column_number + 1, no_types)
              ELSE IF types[column_number] # cell_data_type
              THEN [err |-> "TypeError", row |-> Append(row, r.value), types |-> types]
              ELSE CellLoop(cells, i + 1, Append(row, r.value), types,
                            column_number + 1, no_types)

\* Variant: the header row is counted against the row limit.
RowPolicyHeaderCounts(row_len, skip, limit, first, hdr) ==
    IF row_len = 0
    THEN [verdict |-> "empty", skip_lines |-> skip, row_limit |-> limit]
    ELSE IF limit # <<>> /\ skip <= 0 /\ ~(limit[1] > 0)
    THEN [verdict |-> "break", skip_lines |-> skip, row_limit |-> limit]
    ELSE LET limit2 == IF limit # <<>> /\ skip <= 0
                       THEN <<limit[1] - 1>> ELSE limit
         IN
         IF skip > 0 /\ ((hdr /\ ~first) \/ ~hdr)
         THEN [verdict |-> "skip", skip_lines |-> skip - 1, row_limit |-> limit2]
         ELSE [verdict |-> "keep", skip_lines |-> skip, row_limit |-> limit2]

\* Variant: the test for an empty row is missing.
RowPolicyKeepsEmpty(row_len, skip, limit, first, hdr) ==
    IF limit # <<>> /\ skip <= 0 /\ ~(limit[1] > 0)
    THEN [verdict |-> "break", skip_lines |-> skip, row_limit |-> limit]
    ELSE LET limit2 == IF limit # <<>> /\ skip <= 0 /\ (~first \/ ~hdr)
                       THEN <<limit[1] - 1>> ELSE limit
         IN
         IF skip > 0 /\ ((hdr /\ ~first) \/ ~hdr)
         THEN [verdict |-> "skip", skip_lines |-> skip - 1, row_limit |-> limit2]
         ELSE [verdict |-> "keep", skip_lines |-> skip, row_limit |-> limit2]

\* Variant: the test for an empty row comes after the skip_lines accounting.
RowPolicyEmptyAfterSkip(row_len, skip, limit, first, hdr) ==
    IF limit # <<>> /\ skip <= 0 /\ ~(limit[1] > 0) /\ row_len # 0
    THEN [verdict |-> "break", skip_lines |-> skip, row_limit |-> limit]
    ELSE LET limit2 == IF limit # <<>> /\ skip <= 0 /\ (~first \/ ~hdr) /\ row_len # 0
                       THEN <<limit[1] - 1>> ELSE limit
         IN
         IF skip > 0 /\ ((hdr /\ ~first) \/ ~hdr)
         THEN [verdict |-> "skip", skip_lines |-> skip - 1, row_limit |-> limit2]
         ELSE IF row_len = 0
         THEN [verdict |-> "empty", skip_lines |-> skip, row_limit |-> limit2]
         ELSE [verdict |-> "keep", skip_lines |-> skip, row_limit |-> limit2]

\* Lines 157-178, what happens to a row once its cells are read: "empty"
\* (continue), "break", "skip" (continue) or "keep" (append), with the
\* counters as the iteration leaves them.
RowPolicy(row_len, skip, limit, first, hdr) ==
    IF row_len = 0
    THEN [verdict |-> "empty", skip_lines |-> skip, row_limit |-> limit]
    ELSE IF limit # <<>> /\ skip <= 0 /\ ~(limit[1] > 0)
    THEN [verdict |-> "break", skip_lines |-> skip, row_limit |-> limit]
    ELSE LET limit2 == IF limit # <<>> /\ skip <= 0 /\ (~first \/ ~hdr)
                       THEN <<limit[1] - 1>> ELSE limit
         IN
         IF skip > 0 /\ ((hdr /\ ~first) \/ ~hdr)
         THEN [verdict |-> "skip", skip_lines |-> skip - 1, row_limit |-> limit2]
         ELSE [verdict |-> "keep", skip_lines |-> skip, row_limit |-> limit2]

\* ------------------------------------------------------ sheet selection
\* list.index: the first position (0-based) of x in s.
RECURSIVE IndexOf(_, _, _)
IndexOf(s, x, i) == IF s[i + 1] = x THEN i ELSE IndexOf(s, x, i + 1)

\* The last position (0-based) of x in s, searching down from position i.
RECURSIVE LastIndexOf(_, _, _)
LastIndexOf(s, x, i) == IF s[i + 1] = x THEN i ELSE LastIndexOf(s, x, i - 1)

\* Variant: a name selects the last sheet of that name.
ResolveSheetLastName(sheetnames, sel) ==
    LET n == Len(sheetnames) IN
    IF sel.kind = "None"
    THEN IF n > 0 THEN [err |-> "", index |-> 0]
         ELSE [err |-> "IndexError", index |-> 0]
    ELSE IF sel.kind = "int"
    THEN IF sel.i >= 0 /\ sel.i < n THEN [err |-> "", index |-> sel.i]
         ELSE IF sel.i < 0 /\ sel.i >= -n THEN [err |-> "", index |-> n + sel.i]
         ELSE [err |-> "IndexError", index |-> 0]
    ELSE IF sel.kind = "str"
    THEN IF \E k \in 1..n : sheetnames[k] = sel.name
         THEN [err |-> "", index |-> LastIndexOf(sheetnames, sel.name, n - 1)]
         ELSE [err |-> "NoSuchSheet", index |-> 0]
    ELSE [err |-> "InvalidSheetArgument", index |-> 0]

\* Variant: a position is checked against the sheet count before indexing,
\* so that no negative position is accepted.
ResolveSheetNoNegative(sheetnames, sel) ==
    LET n == Len(sheetnames) IN
    IF sel.kind = "None"
    THEN IF n > 0 THEN [err |-> "", index |-> 0]
         ELSE [err |-> "IndexError", index |-> 0]
    ELSE IF sel.kind = "int"
    THEN IF sel.i >= 0 /\ sel.i < n THEN [err |-> "", index |-> sel.i]
         ELSE [err |-> "IndexError", index |-> 0]
    ELSE IF sel.kind = "str"
    THEN IF \E k \in 1..n : sheetnames[k] = sel.name
         THEN [err |-> "", index |-> IndexOf(sheetnames, sel.name, 0)]
         ELSE [err |-> "NoSuchSheet", index |-> 0]
    ELSE [err |-> "InvalidSheetArgument", index |-> 0]

\* Lines 121-132: the 0-based position of the sheet to operate on, or the
\* error raised.  A Python list index i is valid when -len <= i < len.
ResolveSheet(sheetnames, sel) ==
    LET n == Len(sheetnames) IN
    IF sel.kind = "None"
    THEN IF n > 0 THEN [err |-> "", index |-> 0]
         ELSE [err |-> "IndexError", index |-> 0]
    ELSE IF sel.kind = "int"
    THEN IF sel.i >= 0 /\ sel.i < n THEN [err |-> "", index |-> sel.i]
         ELSE IF sel.i < 0 /\ sel.i >= -n THEN [err |-> "", index |-> n + sel.i]
         ELSE [err |-> "IndexError", index |-> 0]
    ELSE IF sel.kind = "str"
    THEN IF \E k \in 1..n : sheetnames[k] = sel.name
         THEN [err |-> "", index |-> IndexOf(sheetnames, sel.name, 0)]
         ELSE [err |-> "NoSuchSheet", index |-> 0]
    ELSE [err |-> "InvalidSheetArgument", index |-> 0]

\* -------------------------------------------------------------- assembly
\* sorted(calculated_column_types.items()) then .values(): the observed
\* types in ascending order of column position.
RECURSIVE SortedValues(_)
SortedValues(types) ==
    IF DOMAIN types = {} THEN <<>>
    ELSE LET k == CHOOSE c \in DOMAIN types : \A d \in DOMAIN types : c <= d
             rest == [c \in DOMAIN types \ {k} |-> types[c]]
         IN <<types[k]>> \o SortedValues(rest)

\* [ODS_TYPE_TO_AGATE[data_type] for data_type in data_types]
MapTypes(data_types) == [k \in 1..Len(data_types) |-> ODS_TYPE_TO_AGATE[data_types[k]]]

\* ----------------------------------------------------------------- state
VARIABLES
    doc,                      \* the parsed content.xml: the sheets in document order
    sheet,                    \* argument: the sheet selector
    skip_lines_is_int,        \* isinstance(skip_lines, int)
    skip_lines,               \* argument, and the counter the walk decrements
    header,                   \* argument
    row_limit,                \* argument, and the counter the walk decrements
    kwargs,                   \* argument: the keyword arguments
    arg_skip_lines,           \* skip_lines as the caller passed it
    arg_row_limit,            \* row_limit as the caller passed it
    pc,                       \* "start", "select", "walk", "assemble", "done"
    sheet_to_operate_on,      \* 0-based position of the selected sheet, -1 before
    next_row,                 \* 1-based position of the row the iterator yields next
    rows,                     \* the parsed rows
    first_row,
    calculated_column_types,  \* column position -> observed value-type
    column_types,             \* the local computed at lines 180-186
    table,                    \* the arguments of the agate.Table call
    outcome                   \* "" while running, "table", or the error raised

vars ==
    <<doc, sheet, skip_lines_is_int, skip_lines, header, row_limit, kwargs,
      arg_skip_lines, arg_row_limit, pc,
      sheet_to_operate_on, next_row, rows, first_row, calculated_column_types,
      column_types, table, outcome>>

args == <<doc, sheet, skip_lines_is_int, header, kwargs, arg_skip_lines, arg_row_limit>>

\* sheetnames, line 116-118
SheetNames == [k \in 1..Len(doc) |-> doc[k].name]

\* The rows of the selected sheet: sheet_to_operate_on.iter(table_row_tag)
SheetRows == doc[sheet_to_operate_on + 1].rows

NoSelector == [kind |-> "None", i |-> 0, name |-> ""]
IntSelector(n) == [kind |-> "int", i |-> n, name |-> ""]
StrSelector(s) == [kind |-> "str", i |-> 0, name |-> s]
OtherSelector == [kind |-> "other", i |-> 0, name |-> ""]

Selectors ==
    {NoSelector, OtherSelector}
        \cup {IntSelector(n) : n \in (0 - MaxSheets - 1)..(MaxSheets + 1)}
        \cup {StrSelector(s) : s \in {"A", "B", "Z"}}

NoKwargs == [k \in {} |-> <<>>]
KwargsSet ==
    { NoKwargs,
      [column_types |-> <<"Text">>],
      [column_names |-> << <<"x">> >>],
      [column_types |-> <<"Number", "Text">>, column_names |-> << <<"x">>, <<"y">> >>] }

RowLimits == {<<>>} \cup {<<n>> : n \in 0..MaxLimit}

SampleBodies == { << <<StrCell>>, <<StrCell>> >>, << <<StrCell>>, <<FloatCell, PadCell>> >> }

UnbuiltTable == [rows |-> <<>>, column_names |-> <<>>]

Started ==
    /\ pc = "start"
    /\ arg_skip_lines = skip_lines
    /\ arg_row_limit = row_limit
    /\ sheet_to_operate_on = -1
    /\ next_row = 1
    /\ rows = <<>>
    /\ first_row = TRUE
    /\ calculated_column_types = EmptyMap
    /\ column_types = <<>>
    /\ table = UnbuiltTable
    /\ outcome = ""

\* One sheet, every sample row sequence, every skip/header/limit policy.
InitWalk ==
    /\ doc \in {<<[name |-> "A", rows |-> r]>> : r \in SeqsUpTo(SampleRows, MaxRows)}
    /\ sheet = NoSelector
    /\ skip_lines_is_int = TRUE
    /\ skip_lines \in 0..MaxSkip
    /\ header \in BOOLEAN
    /\ row_limit \in RowLimits
    /\ kwargs \in KwargsSet
    /\ Started

\* Several sheets, every selector, an argument check that may fail.
InitSelect ==
    /\ doc \in SeqsUpTo([name : {"A", "B"}, rows : SampleBodies], MaxSheets)
    /\ sheet \in Selectors
    /\ skip_lines_is_int \in BOOLEAN
    /\ skip_lines = 0
    /\ header = TRUE
    /\ row_limit = <<>>
    /\ kwargs = NoKwargs
    /\ Started

Init == InitWalk \/ InitSelect

\* Lines 99-100.
CheckSkipLines ==
    /\ pc = "start"
    /\ IF skip_lines_is_int
       THEN pc' = "select" /\ outcome' = outcome
       ELSE pc' = "done" /\ outcome' = "InvalidSkipLines"
    /\ UNCHANGED <<args, skip_lines, row_limit, sheet_to_operate_on, next_row, rows,
                   first_row, calculated_column_types, column_types, table>>

\* Lines 116-136.
SelectSheet ==
    /\ pc = "select"
    /\ LET r == ResolveSheet(SheetNames, sheet) IN
       IF r.err = ""
       THEN pc' = "walk" /\ sheet_to_operate_on' = r.index /\ outcome' = outcome
       ELSE pc' = "done" /\ sheet_to_operate_on' = sheet_to_operate_on
                         /\ outcome' = r.err
    /\ UNCHANGED <<args, skip_lines, row_limit, next_row, rows, first_row,
                   calculated_column_types, column_types, table>>

\* Lines 138-178: one iteration of the loop over the rows.
VisitRow ==
    /\ pc = "walk"
    /\ next_row <= Len(SheetRows)
    /\ LET table_row == SheetRows[next_row]
           c == CellLoop(table_row, 1, <<>>, calculated_column_types, 0,
                         header /\ first_row)
           p == RowPolicy(Len(c.row), skip_lines, row_limit, first_row, header)
       IN
       /\ calculated_column_types' = c.types
       /\ IF c.err # ""
          THEN /\ pc' = "done"
               /\ outcome' = c.err
               /\ UNCHANGED <<skip_lines, row_limit, next_row, rows, first_row>>
          ELSE /\ outcome' = outcome
               /\ skip_lines' = p.skip_lines
               /\ row_limit' = p.row_limit
               /\ pc' = IF p.verdict = "break" THEN "assemble" ELSE "walk"
               /\ next_row' = IF p.verdict = "break" THEN next_row ELSE next_row + 1
               /\ first_row' = IF p.verdict = "keep" THEN FALSE ELSE first_row
               /\ rows' = IF p.verdict = "keep" THEN Append(rows, c.row) ELSE rows
    /\ UNCHANGED <<args, sheet_to_operate_on, column_types, table>>

\* Lines 180-198, after the loop has ended or was left by break.
Assemble ==
    /\ pc = "assemble" \/ (pc = "walk" /\ next_row > Len(SheetRows))
    /\ pc' = "done"
    /\ LET data_types == SortedValues(calculated_column_types)
           known == \A k \in 1..Len(data_types) : data_types[k] \in DOMAIN ODS_TYPE_TO_AGATE
       IN
       IF "column_types" \notin DOMAIN kwargs /\ ~known
       THEN outcome' = "KeyError" /\ UNCHANGED <<column_types, table, rows>>
       ELSE /\ column_types' = IF "column_types" \in DOMAIN kwargs
                               THEN kwargs.column_types ELSE MapTypes(data_types)
            /\ IF header
               THEN IF Len(rows) = 0
                    THEN outcome' = "IndexError" /\ UNCHANGED <<table, rows>>
                    ELSE /\ rows' = Tail(rows)
                         /\ table' = [rows |-> Tail(rows), column_names |-> Head(rows)]
                         /\ outcome' = "table"
               ELSE IF "column_names" \in DOMAIN kwargs
                    THEN /\ table' = [rows |-> rows, column_names |-> kwargs.column_names]
                         /\ outcome' = "table"
                         /\ rows' = rows
                    ELSE outcome' = "MissingColumnNames" /\ UNCHANGED <<table, rows>>
    /\ UNCHANGED <<args, skip_lines, row_limit, sheet_to_operate_on, next_row,
                   first_row, calculated_column_types>>

Next == CheckSkipLines \/ SelectSheet \/ VisitRow \/ Assemble

Spec == Init /\ [][Next]_vars

\* ------------------------------------------------------------ the claims
Min(a, b) == IF a <= b THEN a ELSE b

\* The cells of a row that do not carry number-columns-repeated.
NonPadding(table_row) == SelectSeq(table_row, LAMBDA c : ~IsPadding(c))
IsEmptyRow(table_row) == NonPadding(table_row) = <<>>
\* The non-empty rows of a sheet, in document order.
NonEmptyRows(rs) == SelectSeq(rs, LAMBDA r : ~IsEmptyRow(r))
\* The resolved values, the declared types and the paragraph texts of a row.
ValuesOf(table_row) ==
    [k \in 1..Len(NonPadding(table_row)) |-> resolve_data_value(NonPadding(table_row)[k]).value]
TypesOf(table_row) ==
    [k \in 1..Len(NonPadding(table_row)) |-> ValueTypeOf(NonPadding(table_row)[k])]
ParagraphTexts(table_row) ==
    [k \in 1..Len(NonPadding(table_row)) |-> ParagraphText(NonPadding(table_row)[k])]

Selected == sheet_to_operate_on >= 0
Visiting == pc = "walk" /\ Selected /\ next_row <= Len(SheetRows)
AtAssembly == Selected /\ (pc = "assemble" \/ (pc = "walk" /\ next_row > Len(SheetRows)))
SelectionDone == skip_lines_is_int /\ pc \notin {"start", "select"}

\* A type-consistent sheet: every non-padding cell declares one of the seven
\* value-types, and the data rows (all non-empty rows but the header) agree
\* on the declared type at every column position they share.
TypeConsistent(rs) ==
    LET ne == NonEmptyRows(rs) IN
    /\ \A i \in 1..Len(ne) : \A k \in 1..Len(TypesOf(ne[i])) :
           TypesOf(ne[i])[k] \in DOMAIN ODS_TYPE_TO_AGATE
    /\ \A i, j \in 2..Len(ne) :
           \A k \in 1..Min(Len(TypesOf(ne[i])), Len(TypesOf(ne[j]))) :
               TypesOf(ne[i])[k] = TypesOf(ne[j])[k]

\* C1: with header=True, row_limit=N >= 1 and skip_lines=K >= 0, on a
\* type-consistent sheet with at least 1+K+N non-empty rows, from_ods returns
\* a table of exactly N data rows, the (K+2)-th to (K+N+1)-th non-empty rows
\* of the sheet in order, and the first non-empty row is the header.
ThmC1 ==
    (/\ pc = "done" /\ Selected /\ header
     /\ arg_row_limit # <<>> /\ arg_row_limit[1] >= 1
     /\ TypeConsistent(SheetRows)
     /\ Len(NonEmptyRows(SheetRows)) >= 1 + arg_skip_lines + arg_row_limit[1])
    => LET ne == NonEmptyRows(SheetRows)
           K == arg_skip_lines
           N == arg_row_limit[1]
       IN
       /\ outcome = "table"
       /\ Len(table.rows) = N
       /\ \A k \in 1..N : table.rows[k] = ValuesOf(ne[K + 1 + k])
       /\ table.column_names = ValuesOf(ne[1])

WitC1 ==
    /\ pc = "done" /\ Selected /\ header
    /\ arg_row_limit = <<1>> /\ arg_skip_lines = 1
    /\ TypeConsistent(SheetRows)
    /\ Len(NonEmptyRows(SheetRows)) = 3
    /\ outcome = "table" /\ Len(table.rows) = 1

\* C2 as stated: with header=True, skip_lines=0 and row_limit=None, whenever
\* a table is returned its column names are the paragraph texts of the cells
\* of the first non-empty row and it has one data row less than the sheet
\* has non-empty rows.
CexC2 ==
    (pc = "done" /\ outcome = "table" /\ header /\ arg_skip_lines = 0 /\ arg_row_limit = <<>>)
    => /\ NonEmptyRows(SheetRows) # <<>>
       /\ table.column_names = ParagraphTexts(NonEmptyRows(SheetRows)[1])
       /\ Len(table.rows) = Len(NonEmptyRows(SheetRows)) - 1

\* C2 as amended: the column names are the resolved values of the non-padding
\* cells of the first non-empty row (the paragraph text of a string cell, the
\* digits and dots of the text of a currency cell, the value attribute of any
\* other cell), and the data rows number the non-empty rows minus one.
ThmC2 ==
    (pc = "done" /\ outcome = "table" /\ header /\ arg_skip_lines = 0 /\ arg_row_limit = <<>>)
    => /\ NonEmptyRows(SheetRows) # <<>>
       /\ table.column_names = ValuesOf(NonEmptyRows(SheetRows)[1])
       /\ Len(table.rows) = Len(NonEmptyRows(SheetRows)) - 1

WitC2 ==
    /\ pc = "done" /\ outcome = "table" /\ header
    /\ arg_skip_lines = 0 /\ arg_row_limit = <<>>
    /\ Len(SheetRows) = 3 /\ Len(NonEmptyRows(SheetRows)) = 2
    /\ NonEmptyRows(SheetRows)[1] = <<FloatCell, PadCell>>
    /\ table.column_names = << <<"1">> >>

\* C3: the table is constructed with its column types: the caller's
\* column_types when given, else the observed types sorted by column position
\* and mapped through ODS_TYPE_TO_AGATE.
CexC3 ==
    outcome = "table"
    => /\ "column_types" \in DOMAIN table
       /\ table.column_types =
              IF "column_types" \in DOMAIN kwargs THEN kwargs.column_types
              ELSE MapTypes(SortedValues(calculated_column_types))

\* C4 as stated: for every sheet of the document, at 0-based position i with
\* name n, the selector n resolves as the selector i does, so that a call
\* that selected by name operates on the sheet at any position bearing it.
CexC4 ==
    SelectionDone
    => /\ \A i \in 0..(Len(doc) - 1) :
              ResolveSheet(SheetNames, StrSelector(SheetNames[i + 1]))
                  = ResolveSheet(SheetNames, IntSelector(i))
       /\ (Selected /\ sheet.kind = "str")
          => \A i \in 0..(Len(doc) - 1) :
                 SheetNames[i + 1] = sheet.name => sheet_to_operate_on = i

\* C4 as amended: for every sheet at position i whose name n is borne by no
\* sheet at an earlier position, the selector n resolves as the selector i
\* does; and a call that selected by name operates on the first sheet of
\* that name, the one its position selects.
ThmC4 ==
    SelectionDone
    => /\ \A i \in 0..(Len(doc) - 1) :
              (\A j \in 0..(i - 1) : SheetNames[j + 1] # SheetNames[i + 1])
              => ResolveSheet(SheetNames, StrSelector(SheetNames[i + 1]))
                     = ResolveSheet(SheetNames, IntSelector(i))
       /\ (Selected /\ sheet.kind = "str")
          => /\ SheetNames[sheet_to_operate_on + 1] = sheet.name
             /\ \A j \in 0..(sheet_to_operate_on - 1) : SheetNames[j + 1] # sheet.name
             /\ ResolveSheet(SheetNames, IntSelector(sheet_to_operate_on))
                    = [err |-> "", index |-> sheet_to_operate_on]

WitC4 ==
    /\ pc = "walk" /\ Len(doc) = 2
    /\ sheet = StrSelector("B")
    /\ sheet_to_operate_on = 1
    /\ SheetNames = <<"A", "B">>

\* A data row about to be visited declares, at a column position already
\* recorded, a value-type other than the recorded one.
DeclaresMismatch(table_row) ==
    \E k \in 1..Len(NonPadding(table_row)) :
        /\ (k - 1) \in DOMAIN calculated_column_types
        /\ TypesOf(table_row)[k] # NoType
        /\ TypesOf(table_row)[k] # calculated_column_types[k - 1]

\* C5: a recorded column type is never replaced, and a visited data row that
\* declares a different value-type at a recorded position makes from_ods fail
\* with the type-mismatch error.
CexC5 ==
    [][/\ \A c \in DOMAIN calculated_column_types :
              /\ c \in DOMAIN calculated_column_types'
              /\ calculated_column_types'[c] = calculated_column_types[c]
       /\ (Visiting /\ ~(header /\ first_row) /\ DeclaresMismatch(SheetRows[next_row]))
          => (pc' = "done" /\ outcome' = "TypeError")]_vars

\* C6: with header=True and a sheet with a non-empty row, the first non-empty
\* row is the first parsed row at assembly time, whatever skip_lines >= 0 and
\* row_limit (None or >= 0) are.
CexC6 ==
    (AtAssembly /\ header /\ NonEmptyRows(SheetRows) # <<>>)
    => /\ rows # <<>>
       /\ rows[1] = ValuesOf(NonEmptyRows(SheetRows)[1])

\* C7: visiting a row that has no cell left once the padding cells are
\* dropped leaves skip_lines, row_limit, first_row, the column-type map and
\* the parsed rows unchanged, and the walk goes on with the next row.
ThmC7 ==
    [][(Visiting /\ IsEmptyRow(SheetRows[next_row]))
       => /\ skip_lines' = skip_lines
          /\ row_limit' = row_limit
          /\ first_row' = first_row
          /\ calculated_column_types' = calculated_column_types
          /\ rows' = rows
          /\ pc' = "walk"
          /\ next_row' = next_row + 1]_vars

WitC7 ==
    /\ pc = "walk" /\ Selected /\ next_row = 3
    /\ IsEmptyRow(SheetRows[2]) /\ ~IsEmptyRow(SheetRows[1])
    /\ header /\ Len(rows) = 1
    /\ skip_lines = 1 /\ arg_skip_lines = 1
    /\ row_limit = <<1>>

SelectionErrors == {"NoSuchSheet", "IndexError", "InvalidSheetArgument"}

\* C8 as stated: selection fails in exactly these cases: a name not in the
\* name list (no-such-sheet), a position >= the sheet count (out of range),
\* a selector that is neither None, an integer nor a string (invalid).
CexC8 ==
    SelectionDone
    => /\ Selected \/ (pc = "done" /\ outcome \in SelectionErrors /\ table = UnbuiltTable)
       /\ (~Selected /\ outcome = "NoSuchSheet")
          <=> (sheet.kind = "str" /\ \A k \in 1..Len(doc) : SheetNames[k] # sheet.name)
       /\ (~Selected /\ outcome = "IndexError")
          <=> (sheet.kind = "int" /\ sheet.i >= Len(doc))
       /\ (~Selected /\ outcome = "InvalidSheetArgument") <=> sheet.kind = "other"

\* C8 as amended: the out-of-range case is a position i with i >= count or
\* i < -count, or the selector None on a document without sheets; the other
\* two cases are as stated, and selection fails in no other case.
ThmC8 ==
    SelectionDone
    => /\ Selected \/ (pc = "done" /\ outcome \in SelectionErrors /\ table = UnbuiltTable)
       /\ (~Selected /\ outcome = "NoSuchSheet")
          <=> (sheet.kind = "str" /\ \A k \in 1..Len(doc) : SheetNames[k] # sheet.name)
       /\ (~Selected /\ outcome = "IndexError")
          <=> \/ (sheet.kind = "int" /\ (sheet.i >= Len(doc) \/ sheet.i < 0 - Len(doc)))
              \/ (sheet.kind = "None" /\ Len(doc) = 0)
       /\ (~Selected /\ outcome = "InvalidSheetArgument") <=> sheet.kind = "other"

WitC8 ==
    /\ SelectionDone /\ ~Selected /\ pc = "done"
    /\ outcome = "IndexError"
    /\ Len(doc) = 2 /\ sheet = IntSelector(-3)

\* C9: resolving a non-padding cell without a value-type does not fail: the
\* walk ends in a lookup failure only at a row with a cell whose declared
\* value-type is none of the seven.
CexC9 ==
    (pc = "done" /\ Selected /\ outcome = "KeyError" /\ next_row <= Len(SheetRows))
    => \E k \in 1..Len(NonPadding(SheetRows[next_row])) :
           TypesOf(SheetRows[next_row])[k] \notin (DOMAIN ODS_TYPE_TO_AGATE \cup {NoType})

\* C10: a non-empty row that skip_lines discards, or that comes once the
\* remaining row limit is zero, records no column type and cannot make
\* from_ods fail.
CexC10 ==
    [][(/\ Visiting
        /\ ~IsEmptyRow(SheetRows[next_row])
        /\ \/ skip_lines > 0 /\ ~(header /\ first_row)
           \/ row_limit # <<>> /\ skip_lines <= 0 /\ row_limit[1] <= 0)
       => /\ calculated_column_types' = calculated_column_types
          /\ outcome' = outcome]_vars

====
